---- MODULE Spec2Model ----
(***************************************************************************)
(* Model of the chat relay of src/src/main.rs: the POST /message handler   *)
(* `post`, the GET /events handler `events` with its EventStream loop, and *)
(* the tokio broadcast channel the two share through Rocket managed state. *)
(*                                                                         *)
(* Strings are sequences of one-character strings, so that lengths, JSON   *)
(* escaping and decoding are computed and not assumed.                     *)
(***************************************************************************)
EXTENDS Integers, Sequences, FiniteSets, TLC

\* ------------------------------------------------------------------ bounds
\* Number of slots of the broadcast channel.  main.rs:96 creates the channel
\* with 1024 slots; the model scales the ring down so that overwriting and
\* lag happen within a few publishes.  Nothing else depends on the number.
Capacity == 2

\* Number of well-formed POST /message requests the environment issues.
MaxPosts == 3

\* Number of client connections to GET /events.
NumClients == 2

\* ------------------------------------------------------- program constants
\* #[field(validate = len(..30))] on room: the exclusive upper end of the range.
RoomLenEnd == 30

\* #[field(validate = len(..20))] on username: the exclusive upper end.
UserLenEnd == 20

Clients == 1..NumClients

\* ------------------------------------------------------------------ strings
Rep(n, c) == [i \in 1..n |-> c]

QUOTE == "\""
BACKSLASH == "\\"
NEWLINE == "\n"

\* ----------------------------------------------------------------- Message
\* struct Message { room, username, message }
Message(r, u, m) == [room |-> r, username |-> u, message |-> m]

NoMsg == [room |-> <<"-">>, username |-> <<"-">>, message |-> <<"-">>]

\* A validator whose range includes its end.
LenInRangeLe(s, end) == Len(s) <= end

\* The len(..N) validator: the length lies in the half-open range 0 .. N-1.
LenInRange(s, end) == Len(s) < end

\* Form<Message> guard: both field validations pass.
FormValid(req) ==
    /\ LenInRange(req.room, RoomLenEnd)
    /\ LenInRange(req.username, UserLenEnd)

\* Request bodies the environment sends.  The fields lie on both sides of
\* each length limit.  The text holds characters JSON must escape and ends in
\* the serial number k of the publish, so that any two published messages
\* differ and a delivery of the wrong one shows.
DIGITS == <<"0", "1", "2", "3", "4", "5", "6", "7", "8", "9">>

Text(k) == <<QUOTE, "a", BACKSLASH, NEWLINE, "n", DIGITS[(k % 10) + 1]>>

FieldInputs ==
    { <<Rep(RoomLenEnd - 1, "r"), Rep(UserLenEnd - 1, "u")>>,
      <<Rep(RoomLenEnd, "r"), Rep(1, "u")>>,
      <<Rep(RoomLenEnd + 1, "r"), Rep(1, "u")>>,
      <<Rep(1, "r"), Rep(UserLenEnd, "u")>> }

Requests(k) == { Message(f[1], f[2], Text(k)) : f \in FieldInputs }

\* -------------------------------------------------------------------- JSON
\* An encoder that copies every character unescaped.
EscapeCharRaw(c) == <<c>>

\* serde_json string escaping of the characters the inputs use.
EscapeChar(c) ==
    IF c = QUOTE THEN <<BACKSLASH, QUOTE>>
    ELSE IF c = BACKSLASH THEN <<BACKSLASH, BACKSLASH>>
    ELSE IF c = NEWLINE THEN <<BACKSLASH, "n">>
    ELSE <<c>>

\* The characters escaping changes.
Escaped == {QUOTE, BACKSLASH, NEWLINE}

\* A JSON string literal: the escaped characters of s between quotes.  A
\* string that holds no character escaping changes is copied whole.
JsonString(s) ==
    LET esc[i \in 0..Len(s)] ==
            IF i = 0 THEN <<>> ELSE esc[i - 1] \o EscapeChar(s[i])
    IN  IF { s[i] : i \in 1..Len(s) } \cap Escaped = {}
        THEN <<QUOTE>> \o s \o <<QUOTE>>
        ELSE <<QUOTE>> \o esc[Len(s)] \o <<QUOTE>>

KeyRoom == JsonString(<<"r", "o", "o", "m">>)
KeyUsername == JsonString(<<"u", "s", "e", "r", "n", "a", "m", "e">>)
KeyMessage == JsonString(<<"m", "e", "s", "s", "a", "g", "e">>)

\* #[derive(Serialize)] on Message: an object of the three fields in
\* declaration order.
Serialize(msg) ==
    <<"{">> \o KeyRoom \o <<":">> \o JsonString(msg.room)
    \o <<",">> \o KeyUsername \o <<":">> \o JsonString(msg.username)
    \o <<",">> \o KeyMessage \o <<":">> \o JsonString(msg.message)
    \o <<"}">>

\* Event::json(&msg): one event whose data is the serialized message.
EventJson(msg) == [data |-> Serialize(msg)]

\* #[derive(Deserialize)] on Message: the decoding a client applies.
\* StrEnd: index of the closing quote of the string literal whose content
\* starts at i.
RECURSIVE StrEnd(_, _)
StrEnd(t, i) ==
    IF i > Len(t) THEN i
    ELSE IF t[i] = QUOTE THEN i
    ELSE IF t[i] = BACKSLASH THEN StrEnd(t, i + 2)
    ELSE StrEnd(t, i + 1)

RECURSIVE Unescape(_)
Unescape(t) ==
    IF t = <<>> THEN <<>>
    ELSE IF Head(t) = BACKSLASH /\ Len(t) >= 2
         THEN <<(IF t[2] = "n" THEN NEWLINE ELSE t[2])>> \o Unescape(Tail(Tail(t)))
         ELSE <<Head(t)>> \o Unescape(Tail(t))

\* Members of the object text t from index i (at the opening quote of a key):
\* a sequence of <<key, value>> pairs.
RECURSIVE Members(_, _)
Members(t, i) ==
    IF i > Len(t) \/ t[i] # QUOTE THEN <<>>
    ELSE LET ke == StrEnd(t, i + 1)
             ve == StrEnd(t, ke + 3)
             key == Unescape(SubSeq(t, i + 1, ke - 1))
             val == Unescape(SubSeq(t, ke + 3, ve - 1))
         IN  <<(<<key, val>>)>> \o
             (IF ve + 1 <= Len(t) /\ t[ve + 1] = "," THEN Members(t, ve + 2) ELSE <<>>)

Field(members, key) ==
    LET hits == { i \in 1..Len(members) : members[i][1] = key }
    IN  IF Cardinality(hits) = 1 THEN members[CHOOSE i \in hits : TRUE][2]
        ELSE <<"?">>

Deserialize(t) ==
    LET ms == Members(t, 2)
    IN  [room |-> Field(ms, <<"r", "o", "o", "m">>),
         username |-> Field(ms, <<"u", "s", "e", "r", "n", "a", "m", "e">>),
         message |-> Field(ms, <<"m", "e", "s", "s", "a", "g", "e">>),
         fields |-> Len(ms)]

\* ------------------------------------------------------- broadcast channel
\* channel::<Message>(Capacity): every slot starts with a position one lap
\* behind its index, so that no receiver finds it readable.
NewBuffer == [i \in 0..(Capacity - 1) |-> [pos |-> i - Capacity, val |-> NoMsg]]

\* A send that stores the value whether or not a receiver exists.
SendAlways(buf, tail, rx, msg) ==
    [ok |-> TRUE, n |-> rx,
     buffer |-> [buf EXCEPT ![tail % Capacity] = [pos |-> tail, val |-> msg]],
     pos |-> tail + 1]

\* A send that refuses to overwrite a slot that holds a value.
SendBlocking(buf, tail, rx, msg) ==
    IF rx = 0 \/ buf[tail % Capacity].pos >= 0
    THEN [ok |-> FALSE, n |-> 0, buffer |-> buf, pos |-> tail]
    ELSE [ok |-> TRUE, n |-> rx,
          buffer |-> [buf EXCEPT ![tail % Capacity] = [pos |-> tail, val |-> msg]],
          pos |-> tail + 1]

\* A send that writes the slot and leaves the tail position where it was.
SendNoAdvance(buf, tail, rx, msg) ==
    IF rx = 0
    THEN [ok |-> FALSE, n |-> 0, buffer |-> buf, pos |-> tail]
    ELSE [ok |-> TRUE, n |-> rx,
          buffer |-> [buf EXCEPT ![tail % Capacity] = [pos |-> tail, val |-> msg]],
          pos |-> tail]

\* Sender::send as the code calls it at main.rs:47.  With no receiver the
\* value is handed back in Err(SendError) and nothing is written; otherwise
\* the slot of the tail position is overwritten and the tail advances.
Send(buf, tail, rx, msg) ==
    IF rx = 0
    THEN [ok |-> FALSE, n |-> 0, buffer |-> buf, pos |-> tail]
    ELSE [ok |-> TRUE, n |-> rx,
          buffer |-> [buf EXCEPT ![tail % Capacity] = [pos |-> tail, val |-> msg]],
          pos |-> tail + 1]

\* A subscribe that starts the receiver at the oldest retained value.
SubscribeOldest(buf, tail) ==
    IF tail > Capacity THEN tail - Capacity ELSE 0

\* Sender::subscribe: the new receiver's cursor is the tail position.
Subscribe(buf, tail) == tail

\* A recv that returns the value at the cursor without advancing the cursor.
RecvNoAdvance(buf, tail, isClosed, nxt) ==
    LET slot == buf[nxt % Capacity]
    IN  IF slot.pos = nxt
        THEN [kind |-> "Ok", val |-> slot.val, pos |-> slot.pos, next |-> nxt, missed |-> 0]
        ELSE [kind |-> "Empty", val |-> NoMsg, pos |-> nxt, next |-> nxt, missed |-> 0]

\* A recv that never reports a lag: it returns whatever the slot holds.
RecvStale(buf, tail, isClosed, nxt) ==
    LET slot == buf[nxt % Capacity]
    IN  IF slot.pos >= nxt
        THEN [kind |-> "Ok", val |-> slot.val, pos |-> slot.pos, next |-> nxt + 1, missed |-> 0]
        ELSE IF isClosed
             THEN [kind |-> "Closed", val |-> NoMsg, pos |-> nxt, next |-> nxt, missed |-> 0]
             ELSE [kind |-> "Empty", val |-> NoMsg, pos |-> nxt, next |-> nxt, missed |-> 0]

\* A recv whose Lagged count is all that is unread, retained or not.
RecvMiscount(buf, tail, isClosed, nxt) ==
    LET slot == buf[nxt % Capacity]
        oldest == tail - Capacity
    IN  IF slot.pos = nxt
        THEN [kind |-> "Ok", val |-> slot.val, pos |-> slot.pos, next |-> nxt + 1, missed |-> 0]
        ELSE IF slot.pos + Capacity = nxt
             THEN IF isClosed
                  THEN [kind |-> "Closed", val |-> NoMsg, pos |-> nxt, next |-> nxt, missed |-> 0]
                  ELSE [kind |-> "Empty", val |-> NoMsg, pos |-> nxt, next |-> nxt, missed |-> 0]
             ELSE [kind |-> "Lagged", val |-> NoMsg, pos |-> nxt, next |-> oldest,
                   missed |-> tail - nxt]

\* Receiver::recv on a receiver whose cursor is nxt.  kind is "Ok" (a value),
\* "Lagged" (missed values skipped), "Closed", or "Empty" (the future stays
\* pending).
Recv(buf, tail, isClosed, nxt) ==
    LET slot == buf[nxt % Capacity]
        oldest == tail - Capacity
    IN  IF slot.pos = nxt
        THEN [kind |-> "Ok", val |-> slot.val, pos |-> slot.pos, next |-> nxt + 1, missed |-> 0]
        ELSE IF slot.pos + Capacity = nxt
             THEN IF isClosed
                  THEN [kind |-> "Closed", val |-> NoMsg, pos |-> nxt, next |-> nxt, missed |-> 0]
                  ELSE [kind |-> "Empty", val |-> NoMsg, pos |-> nxt, next |-> nxt, missed |-> 0]
             ELSE [kind |-> "Lagged", val |-> NoMsg, pos |-> nxt, next |-> oldest,
                   missed |-> oldest - nxt]

\* ------------------------------------------------------------------- state
VARIABLES
    buffer,     \* the channel's ring of slots
    tailPos,    \* the channel's write position: values written so far
    rxCnt,      \* the channel's count of live receivers
    closed,     \* the Sender in managed state has been dropped
    shutdown,   \* the Shutdown future has resolved
    stream,     \* per connection: "idle", "open" or "ended"
    next,       \* per connection: the receiver's cursor
    emitted,    \* per connection: the events yielded to the client
    received,   \* per connection: the (position, value) pairs recv returned
    attach,     \* per connection: publishes completed before its subscribe()
    lagged,     \* per connection: the sum of the counts of its Lagged results
    skipped,    \* per connection: its latest recv result was Lagged
    posted,     \* every publish in order: the message, and whether send stored it
    sent,       \* the values the channel stored, in order
    last        \* the POST /message request this step answered, and its outcome

vars == <<buffer, tailPos, rxCnt, closed, shutdown, stream, next, emitted,
          received, attach, lagged, skipped, posted, sent, last>>

chan == <<buffer, tailPos, rxCnt, closed, posted, sent>>
subs == <<stream, next, emitted, received, attach, lagged, skipped>>

\* The value of last after a step that answered no POST /message request.
NoRequest == [req |-> NoMsg, status |-> 0, send |-> "none", n |-> 0]

Init ==
    /\ buffer = NewBuffer
    /\ tailPos = 0
    /\ rxCnt = 0
    /\ closed = FALSE
    /\ shutdown = FALSE
    /\ stream = [c \in Clients |-> "idle"]
    /\ next = [c \in Clients |-> 0]
    /\ emitted = [c \in Clients |-> <<>>]
    /\ received = [c \in Clients |-> <<>>]
    /\ attach = [c \in Clients |-> 0]
    /\ lagged = [c \in Clients |-> 0]
    /\ skipped = [c \in Clients |-> FALSE]
    /\ posted = <<>>
    /\ sent = <<>>
    /\ last = NoRequest

\* ------------------------------------------------------------------ actions
\* POST /message.  A form that fails validation is answered 422 by the form
\* guard and the handler never runs; otherwise the handler calls send,
\* discards its result and returns (), answered 200.
Post(req) ==
    /\ Len(posted) < MaxPosts
    /\ ~closed
    /\ IF FormValid(req)
       THEN \E r \in {Send(buffer, tailPos, rxCnt, req)} :
                /\ buffer' = r.buffer
                /\ tailPos' = r.pos
                /\ posted' = Append(posted, [msg |-> req, stored |-> r.ok])
                /\ sent' = IF r.ok THEN Append(sent, req) ELSE sent
                /\ last' = [req |-> req, status |-> 200,
                            send |-> IF r.ok THEN "Ok" ELSE "Err", n |-> r.n]
       ELSE /\ UNCHANGED <<buffer, tailPos, posted, sent>>
            /\ last' = [req |-> req, status |-> 422, send |-> "none", n |-> 0]
    /\ UNCHANGED <<rxCnt, closed, shutdown>>
    /\ UNCHANGED subs

\* A handler that returns the stream without registering a receiver.
EventsNoRegister(c) ==
    /\ stream[c] = "idle"
    /\ \A d \in Clients : d < c => stream[d] # "idle"
    /\ ~closed
    /\ stream' = [stream EXCEPT ![c] = "open"]
    /\ next' = [next EXCEPT ![c] = Subscribe(buffer, tailPos)]
    /\ attach' = [attach EXCEPT ![c] = Len(posted)]
    /\ UNCHANGED <<buffer, tailPos, rxCnt, closed, shutdown, emitted, received,
                   lagged, skipped, posted, sent>>
    /\ last' = NoRequest

\* GET /events: the handler subscribes, then returns the stream.  Connections
\* are numbered in the order in which they arrive.
Events(c) ==
    /\ stream[c] = "idle"
    /\ \A d \in Clients : d < c => stream[d] # "idle"
    /\ ~closed
    /\ stream' = [stream EXCEPT ![c] = "open"]
    /\ next' = [next EXCEPT ![c] = Subscribe(buffer, tailPos)]
    /\ attach' = [attach EXCEPT ![c] = Len(posted)]
    /\ rxCnt' = rxCnt + 1
    /\ UNCHANGED <<buffer, tailPos, closed, shutdown, emitted, received, lagged,
                   skipped, posted, sent>>
    /\ last' = NoRequest

\* The match on the result of recv: Ok(msg) falls through to the yield,
\* Err(Closed) breaks out of the loop, Err(Lagged(_)) continues it.
ArmBreakOnLag(kind) ==
    IF kind = "Ok" THEN "yield" ELSE "break"

ArmYieldOnLag(kind) ==
    IF kind = "Closed" THEN "break" ELSE "yield"

Arm(kind) ==
    IF kind = "Ok" THEN "yield"
    ELSE IF kind = "Closed" THEN "break"
    ELSE "continue"

\* A turn on the recv branch of a channel whose receivers share one cursor:
\* what one stream takes, no other stream is given.
RecvBranchShared(c) ==
    /\ stream[c] = "open"
    /\ \E r \in {Recv(buffer, tailPos, closed, next[c])} :
           /\ r.kind # "Empty"
           /\ next' = [d \in Clients |-> IF stream[d] = "open" THEN r.next ELSE next[d]]
           /\ skipped' = [skipped EXCEPT ![c] = (r.kind = "Lagged")]
           /\ IF Arm(r.kind) = "yield"
              THEN /\ received' = [received EXCEPT
                                     ![c] = Append(@, [pos |-> r.pos, msg |-> r.val])]
                   /\ emitted' = [emitted EXCEPT ![c] = Append(@, EventJson(r.val))]
              ELSE UNCHANGED <<received, emitted>>
           /\ lagged' = [lagged EXCEPT ![c] = @ + r.missed]
           /\ IF Arm(r.kind) = "break"
              THEN /\ stream' = [stream EXCEPT ![c] = "ended"]
                   /\ rxCnt' = rxCnt - 1
              ELSE UNCHANGED <<stream, rxCnt>>
    /\ UNCHANGED <<buffer, tailPos, closed, shutdown, attach, posted, sent>>
    /\ last' = NoRequest

\* One turn of the stream's loop in which select! completes its recv branch.
RecvBranch(c) ==
    /\ stream[c] = "open"
    /\ \E r \in {Recv(buffer, tailPos, closed, next[c])} :
           /\ r.kind # "Empty"
           /\ next' = [next EXCEPT ![c] = r.next]
           /\ skipped' = [skipped EXCEPT ![c] = (r.kind = "Lagged")]
           /\ IF Arm(r.kind) = "yield"
              THEN /\ received' = [received EXCEPT
                                     ![c] = Append(@, [pos |-> r.pos, msg |-> r.val])]
                   /\ emitted' = [emitted EXCEPT ![c] = Append(@, EventJson(r.val))]
              ELSE UNCHANGED <<received, emitted>>
           /\ lagged' = [lagged EXCEPT ![c] = @ + r.missed]
           /\ IF Arm(r.kind) = "break"
              THEN /\ stream' = [stream EXCEPT ![c] = "ended"]
                   /\ rxCnt' = rxCnt - 1
              ELSE UNCHANGED <<stream, rxCnt>>
    /\ UNCHANGED <<buffer, tailPos, closed, shutdown, attach, posted, sent>>
    /\ last' = NoRequest

\* A shutdown future that never completes.
ShutdownNever(c) == FALSE

\* The shutdown future of a stream is ready once the signal is on.
ShutdownReady(c) == shutdown

\* A turn of the loop that sees the signal and goes round again.
ShutdownContinue(c) ==
    /\ stream[c] = "open"
    /\ ShutdownReady(c)
    /\ last' = NoRequest
    /\ UNCHANGED <<buffer, tailPos, rxCnt, closed, shutdown, stream, next, emitted,
                   received, attach, lagged, skipped, posted, sent>>

\* One turn of the loop in which select! completes its shutdown branch.  The
\* select! is not biased: when both branches are ready either may be taken.
ShutdownBranch(c) ==
    /\ stream[c] = "open"
    /\ ShutdownReady(c)
    /\ stream' = [stream EXCEPT ![c] = "ended"]
    /\ rxCnt' = rxCnt - 1
    /\ UNCHANGED <<buffer, tailPos, closed, shutdown, next, emitted, received,
                   attach, lagged, skipped, posted, sent>>
    /\ last' = NoRequest

\* The client goes away and the transport drops the stream with its receiver.
Disconnect(c) ==
    /\ stream[c] = "open"
    /\ stream' = [stream EXCEPT ![c] = "ended"]
    /\ rxCnt' = rxCnt - 1
    /\ UNCHANGED <<buffer, tailPos, closed, shutdown, next, emitted, received,
                   attach, lagged, skipped, posted, sent>>
    /\ last' = NoRequest

\* The host process requests shutdown: every Shutdown future resolves.
Notify ==
    /\ ~shutdown
    /\ shutdown' = TRUE
    /\ UNCHANGED <<buffer, tailPos, rxCnt, closed, posted, sent>>
    /\ last' = NoRequest
    /\ UNCHANGED subs

\* A Sender that is dropped while the server still runs.
DropSenderEarly ==
    /\ ~closed
    /\ closed' = TRUE
    /\ UNCHANGED <<buffer, tailPos, rxCnt, shutdown, posted, sent>>
    /\ last' = NoRequest
    /\ UNCHANGED subs

\* Teardown: the Rocket instance, and the Sender it manages, is dropped.
DropSender ==
    /\ shutdown
    /\ ~closed
    /\ closed' = TRUE
    /\ UNCHANGED <<buffer, tailPos, rxCnt, shutdown, posted, sent>>
    /\ last' = NoRequest
    /\ UNCHANGED subs

Next ==
    \/ \E req \in Requests(Len(posted)) : Post(req)
    \/ \E c \in Clients : Events(c)
    \/ \E c \in Clients : RecvBranch(c)
    \/ \E c \in Clients : ShutdownBranch(c)
    \/ \E c \in Clients : Disconnect(c)
    \/ Notify
    \/ DropSender

Spec == Init /\ [][Next]_vars

\* The executor polls a woken stream: a stream whose recv is ready runs.
FairRecv == Spec /\ \A c \in Clients : WF_vars(RecvBranch(c))

\* An unbiased select! does not pass over its ready shutdown branch forever.
FairShutdown == Spec /\ \A c \in Clients : WF_vars(ShutdownBranch(c))

\* ------------------------------------------------------------------ helpers
Min(S) == CHOOSE x \in S : \A y \in S : x <= y

\* Positions of the values the ring retains.
Retained == { buffer[i].pos : i \in 0..(Capacity - 1) } \cap Nat

\* Values unread by connection c.
Unread(c) == tailPos - next[c]

\* The messages published before connection c subscribed.
PublishedBefore(c) == { posted[j].msg : j \in 1..attach[c] }

\* The number of values stored before connection c subscribed.
StoredBefore(c) == Cardinality({ j \in 1..attach[c] : posted[j].stored })

\* The messages stored after connection c subscribed, in order.
SentAfter(c) == SubSeq(sent, StoredBefore(c) + 1, Len(sent))

IsPrefix(s, t) == Len(s) <= Len(t) /\ \A i \in 1..Len(s) : s[i] = t[i]

Events_(msgs) == [i \in 1..Len(msgs) |-> EventJson(msgs[i])]

\* ------------------------------------------------------------------- claims
\* C1: no retroactive delivery.  For every connection, no event on its
\* stream is the event of a message whose publish completed before the
\* connection subscribed, and no value it received was written before then.
C1_NoRetroactiveDelivery ==
    \A c \in Clients :
        /\ \A i \in 1..Len(emitted[c]) :
               \A m \in PublishedBefore(c) : emitted[c][i] # EventJson(m)
        /\ \A i \in 1..Len(received[c]) : received[c][i].pos >= StoredBefore(c)

\* A connection that subscribed after a stored publish has received a later one.
C1_Witness ==
    \E c \in Clients :
        /\ StoredBefore(c) >= 1
        /\ Len(emitted[c]) >= 1

\* While a connection has met no lag, the events on its stream are a prefix of
\* the events of the messages stored after it subscribed.
C2_PrefixOfPublished ==
    \A c \in Clients :
        lagged[c] = 0 => IsPrefix(emitted[c], Events_(SentAfter(c)))

\* Every open connection that met no lag has, unless shutdown is on, emitted
\* the event of every message stored after it subscribed.
C2_CaughtUp ==
    \A c \in Clients :
        (stream[c] = "open" /\ lagged[c] = 0 /\ ~shutdown)
            => Len(emitted[c]) = Len(SentAfter(c))

\* C2: complete in-order delivery without lag.  While a connection has met no
\* lag, the events on its stream are a prefix of the events of the messages
\* stored after it subscribed; and, the stream being polled fairly, from some
\* point on every open connection that met no lag has emitted all of them
\* unless shutdown is on (the environment publishes finitely often).
C2_InOrderDelivery == []C2_PrefixOfPublished /\ <>[]C2_CaughtUp

\* A connection that met no lag has been delivered two messages.
C2_Witness ==
    \E c \in Clients :
        /\ lagged[c] = 0
        /\ stream[c] = "open"
        /\ Len(emitted[c]) >= 2
        /\ Len(emitted[c]) = Len(SentAfter(c))

\* C3: total order.  Each stream's events are the events of stored messages
\* at strictly increasing positions, no event occurs twice on a stream, and
\* two streams show the events they share in the same relative order.
C3_TotalOrder ==
    /\ \A c \in Clients :
           /\ Len(emitted[c]) = Len(received[c])
           /\ \A i \in 1..Len(received[c]) :
                  /\ received[c][i].pos + 1 \in 1..Len(sent)
                  /\ received[c][i].msg = sent[received[c][i].pos + 1]
                  /\ emitted[c][i] = EventJson(sent[received[c][i].pos + 1])
           /\ \A i, j \in 1..Len(received[c]) :
                  i < j => /\ received[c][i].pos < received[c][j].pos
                           /\ emitted[c][i] # emitted[c][j]
    /\ \A c, d \in Clients :
           \A i, j \in 1..Len(emitted[c]) : \A k, l \in 1..Len(emitted[d]) :
               (i < j /\ emitted[c][i] = emitted[d][k] /\ emitted[c][j] = emitted[d][l])
                   => k < l

\* Two connections that subscribed at different points share two events.
C3_Witness ==
    \E c, d \in Clients :
        /\ c # d
        /\ attach[c] # attach[d]
        /\ Len(emitted[c]) >= 2
        /\ Len(emitted[d]) >= 2
        /\ emitted[c][Len(emitted[c])] = emitted[d][Len(emitted[d])]

\* With more than Capacity values unread, recv returns Lagged.
C4_LagReported ==
    \A c \in Clients :
        (stream[c] = "open" /\ Unread(c) > Capacity)
            => Recv(buffer, tailPos, closed, next[c]).kind = "Lagged"

\* The turn of the loop that meets the lag emits nothing, keeps the stream
\* open and moves the cursor to the oldest retained value.
C4_LagStep ==
    \A c \in Clients :
        (stream[c] = "open" /\ Unread(c) > Capacity /\ RecvBranch(c))
            => /\ lagged'[c] > lagged[c]
               /\ next'[c] = Min(Retained)
               /\ emitted'[c] = emitted[c]
               /\ received'[c] = received[c]
               /\ stream'[c] = "open"

\* Every value received is the stored value of its position, older than the
\* cursor, and positions strictly increase along the stream.
C4_InOrder ==
    \A c \in Clients :
        /\ \A i \in 1..Len(received[c]) :
               /\ received[c][i].pos < next[c]
               /\ received[c][i].pos + 1 \in 1..Len(sent)
               /\ received[c][i].msg = sent[received[c][i].pos + 1]
        /\ \A i \in 1..(Len(received[c]) - 1) :
               received[c][i].pos < received[c][i + 1].pos

C5_DroppedStep ==
    \A req \in Requests(Len(posted)) :
        (rxCnt = 0 /\ FormValid(req) /\ Post(req))
            => /\ last'.status = 200
               /\ UNCHANGED <<buffer, tailPos, rxCnt, closed, sent>>
               /\ UNCHANGED subs

\* No stream holds the event of a message send did not store.
C5_NeverDelivered ==
    \A c \in Clients : \A i \in 1..Len(emitted[c]) : \A j \in 1..Len(posted) :
        ~posted[j].stored => emitted[c][i] # EventJson(posted[j].msg)

\* C5: a publish with no subscriber.  The handler answers 200 and the
\* channel and every connection are as before; and no connection ever emits
\* the event of a message that was published while there was no receiver.
C5_NoSubscribers == [][C5_DroppedStep]_vars /\ []C5_NeverDelivered

\* A connection that subscribed after a dropped publish has emitted an event.
C5_Witness ==
    \E c \in Clients : \E j \in 1..Len(posted) :
        /\ ~posted[j].stored
        /\ attach[c] >= j
        /\ Len(emitted[c]) >= 1

\* C6: shutdown liveness.  Once the shutdown signal is on, every open stream
\* ends, whether or not anything is published afterwards.
C6_ShutdownLiveness ==
    \A c \in Clients : (shutdown /\ stream[c] = "open") ~> (stream[c] = "ended")

\* After the signal a stream with nothing to read has ended, the Sender alive.
C6_Witness ==
    \E c \in Clients :
        /\ shutdown
        /\ ~closed
        /\ stream[c] = "ended"
        /\ next[c] = tailPos

\* C7 as stated: once the signal is on, a turn of an open stream's loop ends
\* the stream and emits nothing, whatever the channel holds.
C7_ShutdownWinsTies ==
    [][\A c \in Clients :
           (shutdown /\ stream[c] = "open" /\ (RecvBranch(c) \/ ShutdownBranch(c)))
               => (stream'[c] = "ended" /\ emitted'[c] = emitted[c])]_vars

\* Once the signal is on, the shutdown branch of every open stream is ready.
C7_ShutdownBranchReady ==
    \A c \in Clients :
        (shutdown /\ stream[c] = "open") => ENABLED ShutdownBranch(c)

\* With the signal on and recv pending, a step that changes the stream ends it
\* and emits nothing.
C7_PendingStep ==
    \A c \in Clients :
        ( /\ shutdown
          /\ stream[c] = "open"
          /\ Recv(buffer, tailPos, closed, next[c]).kind = "Empty"
          /\ <<stream[c], next[c], emitted[c]>>' # <<stream[c], next[c], emitted[c]>> )
            => (stream'[c] = "ended" /\ emitted'[c] = emitted[c])

\* Taking the shutdown branch ends the stream and emits nothing.
C7_ShutdownStep ==
    \A c \in Clients :
        ShutdownBranch(c) => (stream'[c] = "ended" /\ emitted'[c] = emitted[c])

\* C7 as amended: once the signal is on, the shutdown branch of an open stream
\* is ready in every state and taking it ends the stream with no event; a turn
\* taken while recv is pending can only end the stream; a turn taken while recv
\* is ready may take either branch, so events may still be emitted; and under
\* fair choice of the branch the stream ends.
C7_ShutdownEndsStream ==
    /\ []C7_ShutdownBranchReady
    /\ [][C7_PendingStep /\ C7_ShutdownStep]_vars
    /\ \A c \in Clients : (shutdown /\ stream[c] = "open") ~> (stream[c] # "open")

\* After the signal a stream ended while a value it had not read was retained.
C7_Witness ==
    \E c \in Clients :
        /\ shutdown
        /\ stream[c] = "ended"
        /\ next[c] < tailPos
        /\ Len(emitted[c]) >= 1

\* C8 as stated: a room of 31 characters is rejected with the channel
\* unchanged, a room of 30 characters (username within 20) is accepted and sent.
C8_BoundaryAsStated ==
    [][\A req \in Requests(Len(posted)) :
           Post(req) =>
               /\ (Len(req.room) >= 31 =>
                       (last'.status = 422 /\ UNCHANGED <<buffer, tailPos, sent>>))
               /\ ((Len(req.room) <= 30 /\ Len(req.username) <= 20) =>
                       (last'.status = 200 /\ last'.send # "none"))]_vars

\* The outcome of one request, by the lengths of its room and username.
C8_BoundaryStep ==
    \A req \in Requests(Len(posted)) :
        Post(req) =>
            IF Len(req.room) <= 29 /\ Len(req.username) <= 19
            THEN /\ last'.status = 200
                 /\ last'.send \in {"Ok", "Err"}
                 /\ posted' = Append(posted, [msg |-> req, stored |-> rxCnt > 0])
            ELSE /\ last'.status = 422
                 /\ last'.send = "none"
                 /\ UNCHANGED <<buffer, tailPos, rxCnt, closed, posted, sent>>

\* C8 as amended: a request is accepted, and send is called with its message,
\* exactly when its room is at most 29 long and its username at most 19; a
\* room of 30 or 31, or a username of 20, is rejected with the channel unchanged.
C8_Boundary == [][C8_BoundaryStep]_vars

\* A request with a room of 30 was just rejected, after one with a room of 29
\* and a username of 19 was stored.
C8_Witness ==
    /\ last.status = 422
    /\ Len(last.req.room) = 30
    /\ Len(last.req.username) <= 19
    /\ \E j \in 1..Len(sent) :
           Len(sent[j].room) = 29 /\ Len(sent[j].username) = 19

\* A step that changes a stream's events appends one event, for the value at
\* the cursor, and the event decodes to the fields of the published message.
C9_EmitStep ==
    \A c \in Clients :
        emitted'[c] # emitted[c] =>
            /\ Len(emitted'[c]) = Len(emitted[c]) + 1
            /\ SubSeq(emitted'[c], 1, Len(emitted[c])) = emitted[c]
            /\ Len(received'[c]) = Len(emitted'[c])
            /\ next'[c] = next[c] + 1
            /\ next[c] + 1 \in 1..Len(sent)
            /\ LET d == Deserialize(emitted'[c][Len(emitted'[c])].data)
                   m == sent[next[c] + 1]
               IN  /\ d.fields = 3
                   /\ d.room = m.room
                   /\ d.username = m.username
                   /\ d.message = m.message
                   /\ \E j \in 1..Len(posted) : posted[j].stored /\ posted[j].msg = m

\* A connection that met no lag has emitted one event per value it read.
C9_EventCount ==
    \A c \in Clients :
        (lagged[c] = 0) => Len(emitted[c]) = next[c] - StoredBefore(c)

\* C9: round trip.  A turn of the loop that emits appends exactly one event,
\* for the one value recv returned, and decoding the event's data gives an
\* object of exactly the fields room, username and message with the values of
\* the message that was published at that position.
C9_RoundTrip == [][C9_EmitStep]_vars /\ []C9_EventCount

\* A connection has emitted the event of a message whose text holds a quote, a
\* backslash and a newline.
C9_Witness ==
    \E c \in Clients :
        /\ lagged[c] = 0
        /\ Len(emitted[c]) >= 1
        /\ {QUOTE, BACKSLASH, NEWLINE} \subseteq
               { received[c][1].msg.message[k] : k \in 1..Len(received[c][1].msg.message) }

\* While the server takes requests, every request can be answered at once.
C10_PostEnabled ==
    (~closed /\ Len(posted) < MaxPosts)
        => \A req \in Requests(Len(posted)) : ENABLED Post(req)

\* The outcome of a well-formed request: 200, Ok or Err(SendError) from send,
\* and with a receiver present a write at the tail slot; connections untouched.
C10_PostStep ==
    \A req \in Requests(Len(posted)) :
        (FormValid(req) /\ Post(req))
            => /\ last'.status = 200
               /\ last'.send \in {"Ok", "Err"}
               /\ rxCnt > 0 =>
                      /\ last'.send = "Ok"
                      /\ tailPos' = tailPos + 1
                      /\ buffer'[tailPos % Capacity] = [pos |-> tailPos, val |-> req]
                      /\ \A i \in 0..(Capacity - 1) :
                             i # tailPos % Capacity => buffer'[i] = buffer[i]
               /\ UNCHANGED subs

\* C10: publishers never wait.  A well-formed request can be answered in every
\* state in which the server takes requests; it is answered 200 and send
\* returns Ok or Err(SendError), nothing else; with a receiver present the
\* value is written at the tail position, over the oldest value when the ring
\* is full, however far behind the receivers are; and no connection is touched.
C10_PublishersNeverWait == []C10_PostEnabled /\ [][C10_PostStep]_vars

\* A publish was just stored over a value that an open connection, more than
\* Capacity values behind, had not read.
C10_Witness ==
    /\ last.send = "Ok"
    /\ tailPos > Capacity
    /\ \E c \in Clients : stream[c] = "open" /\ Unread(c) > Capacity

\* The receivers the channel counts are the receivers of the open streams.
OpenStreams == { c \in Clients : stream[c] = "open" }

\* C11 as stated: every well-formed publish returns Ok(n), n the number of
\* receivers at the call (Ok(0) with none), stores the message at the tail
\* position and advances the tail by one.
C11_ResultAsStated ==
    [][(last'.status = 200) =>
          /\ last'.send = "Ok"
          /\ last'.n = rxCnt
          /\ tailPos' = tailPos + 1
          /\ buffer'[tailPos % Capacity] = [pos |-> tailPos, val |-> last'.req]]_vars

\* The channel's receiver count is the number of open streams.
C11_ReceiverCount == rxCnt = Cardinality(OpenStreams)

\* The result of send by the number of receivers at the call.
C11_SendStep ==
    [][(last'.status = 200) =>
          IF rxCnt >= 1
          THEN /\ last'.send = "Ok"
               /\ last'.n = rxCnt
               /\ last'.n = Cardinality(OpenStreams)
               /\ tailPos' = tailPos + 1
               /\ buffer'[tailPos % Capacity] = [pos |-> tailPos, val |-> last'.req]
               /\ sent' = Append(sent, last'.req)
          ELSE /\ last'.send = "Err"
               /\ last'.n = 0
               /\ tailPos' = tailPos
               /\ buffer' = buffer
               /\ sent' = sent]_vars

\* C11 as amended: with at least one receiver a well-formed publish returns
\* Ok(n), n the number of receivers (open streams) at the call, stores the
\* message at the tail position and advances the tail by one; with no
\* receiver it returns Err(SendError), stores nothing and leaves the tail
\* where it was.  The handler answers 200 in both cases.
C11_PublishResult == []C11_ReceiverCount /\ C11_SendStep

\* A publish has just returned Ok(2) after an earlier one found no receiver.
C11_Witness ==
    /\ last.send = "Ok"
    /\ last.n >= 2
    /\ \E j \in 1..Len(posted) : ~posted[j].stored

\* The result recv would return to connection c in the current state.
RecvNow(c) == Recv(buffer, tailPos, closed, next[c])

\* The turn of the loop in which recv returns Lagged emits nothing, leaves the
\* stream open, and leaves recv ready with a value for the next turn.
C12_SkipStep ==
    [][\A c \in Clients :
          (stream[c] = "open" /\ RecvNow(c).kind = "Lagged" /\ next'[c] # next[c])
            => /\ emitted'[c] = emitted[c]
               /\ stream'[c] = "open"
               /\ skipped'[c]
               /\ Recv(buffer', tailPos', closed', next'[c]).kind = "Ok"]_vars

\* A stream whose latest recv result was Lagged never finds recv pending or
\* closed: its next turn has a result to take.
C12_NeverStalls ==
    \A c \in Clients :
        (stream[c] = "open" /\ skipped[c]) => RecvNow(c).kind \in {"Ok", "Lagged"}

\* The first value read after a Lagged result is the oldest value the ring
\* retains at that read, and its event is the one emitted.
C12_ResumeStep ==
    [][\A c \in Clients :
          (skipped[c] /\ ~skipped'[c])
            => /\ stream'[c] = "open"
               /\ Len(received'[c]) = Len(received[c]) + 1
               /\ received'[c][Len(received'[c])].pos = Min(Retained)
               /\ emitted'[c] =
                      Append(emitted[c], EventJson(buffer[Min(Retained) % Capacity].val))]_vars

\* No open stream is left waiting on a skip.
C12_Resumed == \A c \in Clients : ~(stream[c] = "open" /\ skipped[c])

\* A stream that skipped goes on to read a value unless it is ended first:
\* publishes being finitely many, from some point on no open stream is left
\* on a skip.
C12_Progress == <>[]C12_Resumed

\* C12: Lagged is a silent, non-terminal skip.  The turn of the loop in which
\* recv returns Lagged emits no event, does not end the stream and goes back
\* to recv; the next value the stream reads is the oldest one still retained,
\* and it is emitted; and a stream polled fairly does read it unless shutdown
\* or disconnect ends the stream first.
C12_SilentSkip ==
    /\ C12_SkipStep
    /\ []C12_NeverStalls
    /\ C12_ResumeStep
    /\ C12_Progress

\* A stream that met a lag has gone on to emit, with no shutdown.
C12_Witness ==
    \E c \in Clients :
        /\ stream[c] = "open"
        /\ ~shutdown
        /\ lagged[c] > 0
        /\ ~skipped[c]
        /\ emitted[c] # <<>>

\* A step in which an open stream stops being open ends it, and is the break
\* of the Closed arm, the break of the shutdown branch, or the transport
\* dropping the stream of a client that went away.
C13_Exits ==
    [][\A c \in Clients :
          (stream[c] = "open" /\ stream'[c] # "open")
            => /\ stream'[c] = "ended"
               /\ \/ closed /\ RecvNow(c).kind = "Closed" /\ RecvBranch(c)
                  \/ shutdown /\ ShutdownBranch(c)
                  \/ Disconnect(c)]_vars

\* A turn of the loop whose recv returns a value or Lagged leaves the stream
\* open, and a stream whose recv is pending takes no turn on the recv branch.
C13_StaysOpen ==
    [][\A c \in Clients :
          /\ (RecvBranch(c) /\ RecvNow(c).kind \in {"Ok", "Lagged"}) => stream'[c] = "open"
          /\ (stream[c] = "open" /\ RecvNow(c).kind = "Empty") => ~RecvBranch(c)]_vars

\* A publish, a new connection, and a turn or the end of another stream leave
\* the stream's state as it was.
C13_OthersDoNotEnd ==
    [][\A c \in Clients :
          (\/ last'.status # 0
           \/ \E d \in Clients \ {c} :
                  Events(d) \/ RecvBranch(d) \/ ShutdownBranch(d) \/ Disconnect(d))
            => stream'[c] = stream[c]]_vars

\* An ended stream stays ended, emits nothing and reads nothing.
C13_Absorbing ==
    [][\A c \in Clients :
          stream[c] = "ended"
            => /\ stream'[c] = "ended"
               /\ emitted'[c] = emitted[c]
               /\ received'[c] = received[c]
               /\ next'[c] = next[c]
               /\ lagged'[c] = lagged[c]
               /\ skipped'[c] = skipped[c]]_vars

\* C13: the stream's state machine.  An open stream stops being open only by
\* the break on Closed, the break on the shutdown signal, or client
\* disconnect; not on Lagged, not while recv is pending, and not by a step of
\* a publisher or of another connection.  An ended stream is absorbing: it
\* emits no further event and reads nothing more, whatever is published.
C13_StateMachine ==
    /\ C13_Exits
    /\ C13_StaysOpen
    /\ C13_OthersDoNotEnd
    /\ C13_Absorbing

\* A publish has just been stored, for another stream, while a stream that
\* emitted earlier is ended and has that value unread.
C13_Witness ==
    \E c \in Clients :
        /\ stream[c] = "ended"
        /\ emitted[c] # <<>>
        /\ last.send = "Ok"
        /\ tailPos > next[c]

\* A turn or the end of one stream leaves the ring, the tail, and every other
\* stream's cursor, events and pending recv result as they were.
C14_Frame ==
    [][\A c \in Clients :
          (\E d \in Clients \ {c} : RecvBranch(d) \/ ShutdownBranch(d) \/ Disconnect(d))
            => /\ buffer' = buffer
               /\ tailPos' = tailPos
               /\ next'[c] = next[c]
               /\ emitted'[c] = emitted[c]
               /\ lagged'[c] = lagged[c]
               /\ Recv(buffer', tailPos', closed', next'[c]) = RecvNow(c)]_vars

\* Connection c, if open with no lag and no shutdown, has emitted the event
\* of every message stored after it subscribed.
C14_CaughtUp(c) ==
    (stream[c] = "open" /\ lagged[c] = 0 /\ ~shutdown)
        => emitted[c] = Events_(SentAfter(c))

\* Whatever the other streams do, a stream that is itself polled fairly
\* comes to emit all that was stored after it subscribed.
C14_NotDelayed ==
    \A c \in Clients : WF_vars(RecvBranch(c)) => <>[]C14_CaughtUp(c)

UnreadRetained(c) == { p \in Retained : p >= next[c] }

\* The values stored from connection c's cursor on that the ring has lost.
UnreadEvicted(c) == { p \in next[c]..(tailPos - 1) : p \notin Retained }

\* The values stored since connection c subscribed.
StoredSince(c) == tailPos - StoredBefore(c)

\* C15 as stated: in every state, for every subscriber, the events emitted,
\* the sum of its Lagged counts and the values still unread in the ring add
\* up to the values published since its subscribe.
C15_AccountingAsStated ==
    \A c \in Clients :
        stream[c] = "open"
            => Len(emitted[c]) + lagged[c] + Cardinality(UnreadRetained(c)) = StoredSince(c)

\* The count of a Lagged result is the number of values past the cursor that
\* the ring lost before the connection read them.
C15_CountStep ==
    [][\A c \in Clients :
          (stream[c] = "open" /\ RecvNow(c).kind = "Lagged" /\ RecvBranch(c))
            => /\ lagged'[c] - lagged[c] = Cardinality(UnreadEvicted(c))
               /\ lagged'[c] - lagged[c] = RecvNow(c).missed
               /\ UnreadEvicted(c) # {}]_vars

\* Emitted, reported lost, still retained and lost but not yet reported add
\* up to what was stored since the subscribe; nothing is lost unreported
\* while the connection is at most Capacity values behind.
C15_Balance ==
    \A c \in Clients :
        stream[c] # "idle"
            => /\ Len(emitted[c]) + lagged[c] + Cardinality(UnreadRetained(c))
                      + Cardinality(UnreadEvicted(c)) = StoredSince(c)
               /\ Unread(c) <= Capacity => UnreadEvicted(c) = {}

\* C15 as amended: the count of Lagged(n) is exactly the number of values
\* stored after the cursor that were evicted unread; and in every state the
\* events emitted, the Lagged counts received, the values still unread in the
\* ring and the values evicted unread but not yet reported by a Lagged add up
\* to the values published since the subscribe, the last term being zero
\* whenever the subscriber is at most Capacity values behind.
C15_LagAccounting == C15_CountStep /\ []C15_Balance

\* An open stream has emitted, has been told of a lag and has a value unread.
C15_Witness ==
    \E c \in Clients :
        /\ stream[c] = "open"
        /\ emitted[c] # <<>>
        /\ lagged[c] > 0
        /\ UnreadRetained(c) # {}
        /\ UnreadEvicted(c) = {}

Max(S) == CHOOSE x \in S : \A y \in S : x >= y

\* The positions of the Capacity most recently stored values.
MostRecent == Max({0, tailPos - Capacity})..(tailPos - 1)

\* The ring retains the most recently stored values and no others, at most
\* Capacity of them, each in the slot of its position; the tail position is
\* the number of values stored; and no cursor is past the tail.
C16_Ring ==
    /\ tailPos = Len(sent)
    /\ Retained = MostRecent
    /\ Cardinality(Retained) <= Capacity
    /\ \A p \in Retained :
           /\ buffer[p % Capacity].pos = p
           /\ buffer[p % Capacity].val = sent[p + 1]
    /\ \A c \in Clients : 0 <= next[c] /\ next[c] <= tailPos

\* The tail position and every cursor never decrease.
C16_Monotone ==
    [][/\ tailPos' >= tailPos
       /\ \A c \in Clients : next'[c] >= next[c]]_vars

\* C16: bounded buffer and cursor invariant.  In every state the channel
\* retains at most Capacity values, the most recently published ones in
\* publish order; the write position never decreases; and every subscriber's
\* cursor never decreases and never exceeds the write position.
C16_BoundedBuffer == []C16_Ring /\ C16_Monotone

\* The ring has wrapped, one open stream is behind and another is at the tail.
C16_Witness ==
    /\ tailPos > Capacity
    /\ \E c, d \in Clients :
           /\ stream[c] = "open" /\ stream[d] = "open"
           /\ 0 < next[c] /\ next[c] < tailPos
           /\ next[d] = tailPos

\* The handler's step registers one receiver, with its cursor at the tail,
\* and reads nothing; no other step adds a receiver.
C17_RegisterStep ==
    [][/\ \A c \in Clients :
              (stream[c] = "idle" /\ stream'[c] = "open")
                => /\ rxCnt' = rxCnt + 1
                   /\ next'[c] = tailPos
                   /\ received'[c] = <<>> /\ emitted'[c] = <<>>
       /\ rxCnt' > rxCnt => \E c \in Clients : stream[c] = "idle" /\ stream'[c] = "open"
       /\ \A c \in Clients : stream[c] # "idle" => attach'[c] = attach[c]]_vars

\* A request answered while a stream is open and has read nothing yet is
\* stored, and the stream's recv is ready afterwards.
C17_StoredBeforeFirstRead ==
    [][\A c \in Clients :
          (stream[c] = "open" /\ received[c] = <<>> /\ last'.status = 200)
            => /\ last'.send = "Ok"
               /\ sent' = Append(sent, last'.req)
               /\ Recv(buffer', tailPos', closed', next'[c]).kind \in {"Ok", "Lagged"}]_vars

\* Each connection holds one receiver while open, and what a connection
\* that met no lag has read are the values stored since its handler ran,
\* from the first one on.
C17_ReadsFromAttach ==
    /\ rxCnt = Cardinality({ c \in Clients : stream[c] = "open" })
    /\ \A c \in Clients :
           lagged[c] = 0
             => \A i \in 1..Len(received[c]) :
                    /\ received[c][i].pos = StoredBefore(c) + i - 1
                    /\ received[c][i].msg = sent[StoredBefore(c) + i]
                    /\ emitted[c][i] = EventJson(sent[StoredBefore(c) + i])

\* C17: the attach point is the handler call.  The receiver is registered in
\* the handler's step, before any turn of the stream's loop; a message
\* published after that step and before the stream's first read is stored
\* for the stream and, within the capacity, is what the stream reads first;
\* and a connection registers exactly one receiver.
C17_AttachAtHandler ==
    /\ C17_RegisterStep
    /\ C17_StoredBeforeFirstRead
    /\ []C17_ReadsFromAttach

\* A stream that subscribed after a stored publish has read and emitted the
\* two messages published since, with no lag.
C17_Witness ==
    \E c \in Clients :
        /\ stream[c] = "open"
        /\ StoredBefore(c) >= 1
        /\ lagged[c] = 0
        /\ Len(emitted[c]) = 2
        /\ Unread(c) = 0

\* Until the shutdown signal the Sender is alive, and recv returns Closed to
\* no stream; Closed is returned only once the Sender is dropped.
C18_SenderAlive ==
    /\ ~shutdown => ~closed
    /\ \A c \in Clients :
           (stream[c] = "open" /\ RecvNow(c).kind = "Closed") => (closed /\ shutdown)

\* Before the shutdown signal no turn of a stream's loop ends the stream: a
\* step that ends one is the transport dropping it on client disconnect.
C18_EndsBeforeShutdown ==
    [][~shutdown =>
          \A c \in Clients :
              /\ RecvBranch(c) => stream'[c] = "open"
              /\ ~ShutdownBranch(c)
              /\ (stream[c] = "open" /\ stream'[c] # "open") => Disconnect(c)]_vars

\* C18: Closed is unreachable before teardown.  The Sender lives in managed
\* state until the server is torn down, so while the shutdown signal is off
\* no recv returns Closed, and a stream can end only by client disconnect.
C18_NoClosedBeforeTeardown == []C18_SenderAlive /\ C18_EndsBeforeShutdown

\* With the signal off, one stream has ended and another, having read
\* everything, waits on a pending recv.
C18_Witness ==
    /\ ~shutdown
    /\ \E c, d \in Clients :
           /\ stream[c] = "ended"
           /\ stream[d] = "open"
           /\ received[d] # <<>>
           /\ RecvNow(d).kind = "Empty"


====
